---- MODULE Spec2Model ----
(***************************************************************************)
(* Model of src/app.py: the Streamlit dashboard over two eBay perfume CSV  *)
(* files.  The script is re-executed top to bottom on every interaction;   *)
(* one execution of the script is one action (Rerun...).  limpiar_numero   *)
(* is a pure function and is also exercised on its own under SpecNum.      *)
(*                                                                         *)
(* A text is a sequence of characters, each character a one-element        *)
(* string.  Two non-ASCII characters are part of the alphabet because      *)
(* str.isdigit() is true of them: "U+0663" (ARABIC-INDIC DIGIT THREE, a    *)
(* decimal digit int()/float() accept with value 3) and "U+00B2"           *)
(* (SUPERSCRIPT TWO, a digit that int()/float() reject).                   *)
(***************************************************************************)
EXTENDS Integers, Sequences, FiniteSets, TLC

VARIABLES
    texto, es_float, resultado,   \* SpecNum: one call of limpiar_numero
    csv_m, csv_w,                 \* the rows of ebay_mens_perfume.csv / ebay_womens_perfume.csv
    exists_m, exists_w,           \* whether each file is on disk
    tie,                          \* how this build's unstable sort orders equal keys
    cache,                        \* st.cache_data's entry for cargar_datos
    reads,                        \* how many times each file has been read
    status,                       \* "fresh", or how the last run of the script ended
    df,                           \* the script's df after lines 40-48
    ui,                           \* the widget values of the last run
    out                           \* what the last run computed and showed

numVars == <<texto, es_float, resultado>>
appVars == <<csv_m, csv_w, exists_m, exists_w, tie, cache, reads, status, df, ui, out>>
vars == <<texto, es_float, resultado, csv_m, csv_w, exists_m, exists_w, tie, cache,
          reads, status, df, ui, out>>

(***************************************************************************)
(* Bounds.                                                                 *)
(***************************************************************************)
MaxLen == 3
\* The two files of the small inputs hold at most MaxRows rows together.
MaxRows == 2

(***************************************************************************)
(* Characters.                                                             *)
(***************************************************************************)
AsciiDigits == {"0", "1", "2", "3", "4", "5", "6", "7", "8", "9"}

\* str.isdigit(): Unicode Numeric_Type Digit or Decimal.
IsDigit(x) == x \in AsciiDigits \cup {"U+0663", "U+00B2"}

\* The digits int() and float() accept: Unicode category Nd (str.isdecimal()).
IsDecimal(x) == x \in AsciiDigits \cup {"U+0663"}

DigitValue(x) ==
    CASE x = "0" -> 0 [] x = "1" -> 1 [] x = "2" -> 2 [] x = "3" -> 3
      [] x = "4" -> 4 [] x = "5" -> 5 [] x = "6" -> 6 [] x = "7" -> 7
      [] x = "8" -> 8 [] x = "9" -> 9 [] x = "U+0663" -> 3

\* The characters the texts of SpecNum are made of.
Alphabet == {"0", "1", "2", ".", "-", "$", "a", " ", "U+0663", "U+00B2"}

\* A missing cell (float NaN in an object column), the value pd.isna is true of.
NaN == <<"<NaN>">>

\* Texts of the kind the files hold: a price, a sold count, a placeholder, and a
\* text with two '.'.
ExampleTexts ==
    { <<"$", "1", "2", ".", "9", "9">>, <<"1", "2", " ", "s", "o", "l", "d">>,
      <<"N", "/", "A">>, <<"1", ".", "2", ".", "3">> }

Texts == UNION {[1..n -> Alphabet] : n \in 0..MaxLen} \cup ExampleTexts

(***************************************************************************)
(* Numbers.  A number is [tipo, num, den]: an int has den = 1, a float is  *)
(* the decimal num/den with den a power of ten and no trailing zero in     *)
(* the fraction (so 12.50 and 12.5 are the same value).                    *)
(***************************************************************************)
IntVal(n) == [tipo |-> "int", num |-> n, den |-> 1]

RECURSIVE Reduce(_, _)
Reduce(n, d) ==
    IF d > 1 /\ n % 10 = 0 THEN Reduce(n \div 10, d \div 10)
    ELSE [tipo |-> "float", num |-> n, den |-> d]

FloatVal(n, d) == Reduce(n, d)

\* The outcome of an expression that may raise.
Ok(v) == [raised |-> FALSE, value |-> v]
Raised == [raised |-> TRUE, value |-> IntVal(0)]

RECURSIVE Digits(_)
\* The integer a sequence of decimal digits denotes.
Digits(s) ==
    IF Len(s) = 0 THEN 0
    ELSE 10 * Digits(SubSeq(s, 1, Len(s) - 1)) + DigitValue(s[Len(s)])

RECURSIVE Pow10(_)
Pow10(k) == IF k = 0 THEN 1 ELSE 10 * Pow10(k - 1)

\* int(limpio) for a string of characters that passed the filter of line 36:
\* ValueError unless it is a non-empty run of decimal digits.
PyInt(s) ==
    IF Len(s) > 0 /\ \A i \in 1..Len(s) : IsDecimal(s[i])
    THEN Ok(IntVal(Digits(s)))
    ELSE Raised

\* float(limpio) for such a string: ValueError unless it holds at most one '.',
\* at least one digit, and only decimal digits besides the '.'.
PyFloat(s) ==
    LET dots == {i \in 1..Len(s) : s[i] = "."}
        digs == SelectSeq(s, LAMBDA x : x # ".")
    IN  IF Cardinality(dots) <= 1 /\ Len(digs) > 0
           /\ \A i \in 1..Len(digs) : IsDecimal(digs[i])
        THEN LET k == IF dots = {} THEN 0 ELSE Len(s) - (CHOOSE i \in dots : TRUE)
             IN  Ok(FloatVal(Digits(digs), Pow10(k)))
        ELSE Raised

Default(flt) == IF flt THEN FloatVal(0, 1) ELSE IntVal(0)

\* pd.isna(texto)
IsNa(t) == t = NaN

\* A filter that keeps the first '.' only.
LimpioPrimerPunto(t, flt) ==
    LET dots == {i \in 1..Len(t) : t[i] = "."}
        keep == {i \in 1..Len(t) :
                    IsDigit(t[i]) \/ (t[i] = "." /\ flt /\ \A j \in dots : i <= j)}
    IN  [k \in 1..Cardinality(keep) |->
            t[CHOOSE i \in keep : Cardinality({j \in keep : j <= i}) = k]]

\* The filter of line 36.
Limpio(t, flt) == SelectSeq(t, LAMBDA x : IsDigit(x) \/ (x = "." /\ flt))

\* A conversion whose exception is not caught.
ExceptPropaga(parsed, flt) == parsed

\* The try/except of lines 37-38, given the outcome of the conversion.
TryExcept(parsed, flt) == IF parsed.raised THEN Ok(Default(flt)) ELSE parsed

\* limpiar_numero(texto, es_float), with whether the call raised.
limpiar_numero(t, flt) ==
    IF IsNa(t) THEN Ok(Default(flt))
    ELSE LET limpio == Limpio(t, flt)
         IN  TryExcept(IF flt THEN PyFloat(limpio) ELSE PyInt(limpio), flt)

(***************************************************************************)
(* The CSV files.  A CSV row is [brand, title, price, sold]; the columns   *)
(* available and itemLocation are renamed and shown but never computed on, *)
(* and are left out.  A cell is the text of its field (or NaN), which is    *)
(* what limpiar_numero and the comparisons get from it for every file of   *)
(* Inputs: a column read_csv infers as numeric there holds only integers   *)
(* (str(5) is the field's text) or only NaN.                               *)
(***************************************************************************)
CsvRow(b, t, p, s) == [brand |-> b, title |-> t, price |-> p, sold |-> s]

\* The rows the small input files are made of: two rows of brand "A" with equal
\* sold counts, a row of brand "a" with the same count, and a row without brand,
\* without price and with a sold text that holds no digit.
SampleRows ==
    { CsvRow("A", "t1", <<"$", "1", "2", ".", "9", "9">>, <<"5", " ", "s", "o", "l", "d">>),
      CsvRow("A", "t2", <<"$", "3", "0", "0">>, <<"5">>),
      CsvRow("a", "t3", <<"1", ".", "2", ".", "3">>, <<"5", " ", "s", "o", "l", "d">>),
      CsvRow("", "t4", <<>>, <<"-">>) }

\* Program constants: head(10) of lines 104 and 108, the multiselect defaults
\* head(5) and head(10) of lines 122 and 129, the price ceiling of line 143.
TopN == 10
BoxDefaultN == 5
StripDefaultN == 10
PriceCeiling == 300

\* Brand and title names of the long input files, in code point order.
LongNames ==
    <<"K01", "K02", "K03", "K04", "K05", "K06", "K07", "K08", "K09", "K10", "K11", "K12">>

\* A file of TopN + 1 rows of TopN + 1 brands, listed from the last brand name to
\* the first, every row with the same sold count.
ManyBrandsFile ==
    [i \in 1..(TopN + 1) |->
        CsvRow(LongNames[TopN + 2 - i], LongNames[i], <<"$", "9">>, <<"7">>)]

\* A file of TopN + 1 rows of one brand: the last row sold most, the others the same.
ManyProductsFile ==
    [i \in 1..(TopN + 1) |->
        CsvRow("A", LongNames[i], <<"$", "9">>,
               IF i = TopN + 1 THEN <<"9">> ELSE <<"7">>)]

SeqsUpTo(S, n) == UNION {[1..k -> S] : k \in 0..n}

\* The contents of the two files: <<men's rows, women's rows>>.
Inputs ==
    {<<m, w>> \in SeqsUpTo(SampleRows, MaxRows) \X SeqsUpTo(SampleRows, MaxRows) :
        Len(m) + Len(w) <= MaxRows}
    \cup {<<ManyBrandsFile, <<>> >>, << <<>>, ManyProductsFile>>,
          <<ManyProductsFile, ManyBrandsFile>>}

(***************************************************************************)
(* pd.read_csv: a field that is one of the default na_values is read as    *)
(* NaN.  A missing brand is the string NaNMarca, which is no brand text.   *)
(***************************************************************************)
NaNMarca == "<NaN>"

NaBrands == {"", "nan", "NaN", "NA", "N/A", "null"}
NaTexts == {<<>>, <<"n", "a", "n">>, <<"N", "A">>, <<"N", "/", "A">>}

read_csv(file) ==
    [i \in 1..Len(file) |->
        [brand |-> IF file[i].brand \in NaBrands THEN NaNMarca ELSE file[i].brand,
         title |-> file[i].title,
         price |-> IF file[i].price \in NaTexts THEN NaN ELSE file[i].price,
         sold  |-> IF file[i].sold \in NaTexts THEN NaN ELSE file[i].sold]]

\* .assign(Genero=g) followed by the rename of lines 26-29, on one source.
AssignGenero(rows, g) ==
    [i \in 1..Len(rows) |->
        [Marca |-> rows[i].brand, Titulo |-> rows[i].title,
         Precio_Texto |-> rows[i].price, Vendidos_Texto |-> rows[i].sold,
         Genero |-> g]]

\* A dataframe, or None.
None == [none |-> TRUE, rows |-> <<>>]
Frame(rows) == [none |-> FALSE, rows |-> rows]

\* A concatenation in the other order.
ConcatInvertido(df_m, df_w) == df_w \o df_m

\* pd.concat([df_m, df_w], ignore_index=True)
ConcatFrames(df_m, df_w) == df_m \o df_w

\* A loader that builds the table from whichever source is present.
CargarDatosParcial(em, ew, fm, fw) ==
    IF ~em /\ ~ew THEN [value |-> None, read_m |-> 0, read_w |-> 0]
    ELSE [value |-> Frame(ConcatFrames(
                       IF em THEN AssignGenero(read_csv(fm), "Hombre") ELSE <<>>,
                       IF ew THEN AssignGenero(read_csv(fw), "Mujer") ELSE <<>>)),
          read_m |-> IF em THEN 1 ELSE 0, read_w |-> IF ew THEN 1 ELSE 0]

\* The body of cargar_datos: the value returned and the files it read.  The
\* first read_csv of a missing file raises FileNotFoundError and nothing after it
\* runs.
cargar_datos(em, ew, fm, fw) ==
    IF ~em THEN [value |-> None, read_m |-> 0, read_w |-> 0]
    ELSE IF ~ew THEN [value |-> None, read_m |-> 1, read_w |-> 0]
    ELSE [value |-> Frame(ConcatFrames(AssignGenero(read_csv(fm), "Hombre"),
                                       AssignGenero(read_csv(fw), "Mujer"))),
          read_m |-> 1, read_w |-> 1]

\* @st.cache_data: the body runs on a miss only, and its return value (None
\* included) is stored pickled; a hit returns a fresh copy of the stored value.
NoEntry == [filled |-> FALSE, value |-> None]

\* A call that is not cached: the body runs every time.
CachedCallSinCache(c, r, em, ew, fm, fw) ==
    LET b == cargar_datos(em, ew, fm, fw)
    IN  [value |-> b.value,
         cache |-> [filled |-> TRUE, value |-> b.value],
         reads |-> [m |-> r.m + b.read_m, w |-> r.w + b.read_w]]

CachedCall(c, r, em, ew, fm, fw) ==
    IF c.filled
    THEN [value |-> c.value, cache |-> c, reads |-> r]
    ELSE LET b == cargar_datos(em, ew, fm, fw)
         IN  [value |-> b.value,
              cache |-> [filled |-> TRUE, value |-> b.value],
              reads |-> [m |-> r.m + b.read_m, w |-> r.w + b.read_w]]

\* Lines 47-48: the columns Precio and Vendidos, on the script's own copy.
Normalizar(rows) ==
    [i \in 1..Len(rows) |->
        [Marca |-> rows[i].Marca, Titulo |-> rows[i].Titulo,
         Precio_Texto |-> rows[i].Precio_Texto,
         Vendidos_Texto |-> rows[i].Vendidos_Texto,
         Genero |-> rows[i].Genero,
         Precio |-> limpiar_numero(rows[i].Precio_Texto, TRUE).value,
         Vendidos |-> limpiar_numero(rows[i].Vendidos_Texto, FALSE).value.num]]

\* Line 56.
FiltrarGenero(rows, g) ==
    IF g = "Ambos" THEN rows ELSE SelectSeq(rows, LAMBDA r : r.Genero = g)

(***************************************************************************)
(* Sorting.  Python orders strings by code point: StrOrder lists every     *)
(* string the model sorts, in that order.                                  *)
(***************************************************************************)
StrOrder == <<"A">> \o LongNames \o <<"a", "nan">>

Rank(x) == CHOOSE i \in 1..Len(StrOrder) : StrOrder[i] = x

RECURSIVE SortedStrings(_)
\* sorted(S) for a set of strings.
SortedStrings(S) ==
    IF S = {} THEN <<>>
    ELSE LET x == CHOOSE y \in S : \A z \in S : Rank(y) <= Rank(z)
         IN  <<x>> \o SortedStrings(S \ {x})

MinOf(S) == CHOOSE x \in S : \A y \in S : x <= y
MaxOf(S) == CHOOSE x \in S : \A y \in S : x >= y

\* sort_values(ascending=False) with the default kind='quicksort', which is not
\* a stable sort: the order of equal keys is not specified and depends on the
\* build (numpy's introsort or its SIMD sort) and on the length.  It is one fixed
\* function per build; tie ranges over two of them: equal keys keep their input
\* order ("kept") or come out in the opposite order ("reversed").
TieOrders == {"kept", "reversed"}

RECURSIVE ArgSortAscRest(_, _, _)
ArgSortAscRest(keys, rest, t) ==
    IF rest = {} THEN <<>>
    ELSE LET mn == MinOf({keys[i] : i \in rest})
             c  == {i \in rest : keys[i] = mn}
             i0 == IF t = "kept" THEN MinOf(c) ELSE MaxOf(c)
         IN  <<i0>> \o ArgSortAscRest(keys, rest \ {i0}, t)

RECURSIVE ArgSortDescRest(_, _, _)
ArgSortDescRest(keys, rest, t) ==
    IF rest = {} THEN <<>>
    ELSE LET mx == MaxOf({keys[i] : i \in rest})
             c  == {i \in rest : keys[i] = mx}
             i0 == IF t = "kept" THEN MinOf(c) ELSE MaxOf(c)
         IN  <<i0>> \o ArgSortDescRest(keys, rest \ {i0}, t)

ArgSortAsc(keys, t) == ArgSortAscRest(keys, DOMAIN keys, t)

\* The positions of keys in descending order of key.
ArgSortDesc(keys, t) == ArgSortDescRest(keys, DOMAIN keys, t)

Take(s, idx) == [k \in 1..Len(idx) |-> s[idx[k]]]

\* A head that does not cut.
PdHeadSinCorte(s, n) == s

\* .head(n)
PdHead(s, n) == IF Len(s) <= n THEN s ELSE SubSeq(s, 1, n)

RECURSIVE SumSeq(_)
SumSeq(s) == IF Len(s) = 0 THEN 0 ELSE s[1] + SumSeq(Tail(s))

(***************************************************************************)
(* The views.                                                              *)
(***************************************************************************)
Column(rows, c) == [i \in 1..Len(rows) |-> rows[i][c]]
Values(s) == {s[i] : i \in 1..Len(s)}

\* df_global['Precio'].mean(): NaN on no row.
MeanPrecio(rows) ==
    IF Len(rows) = 0 THEN [nan |-> TRUE, num |-> 0, den |-> 1]
    ELSE LET d == MaxOf({rows[i].Precio.den : i \in 1..Len(rows)})
             t == SumSeq([i \in 1..Len(rows) |->
                             rows[i].Precio.num * (d \div rows[i].Precio.den)])
         IN  [nan |-> FALSE, num |-> t, den |-> d * Len(rows)]

\* A count of distinct values that takes NaN for a value (dropna=False).
NUniqueConNaN(rows) == Cardinality(Values(Column(rows, "Marca")))

\* ['Marca'].nunique(): dropna=True.
NUnique(rows) == Cardinality(Values(Column(rows, "Marca")) \ {NaNMarca})

\* Lines 68-71.
Metricas(rows) ==
    [count |-> Len(rows),
     mean |-> MeanPrecio(rows),
     total |-> SumSeq(Column(rows, "Vendidos")),
     marcas_unicas |-> NUnique(rows)]

\* .astype(str) on a Marca cell: NaN becomes the text 'nan'.
AsStr(m) == IF m = NaNMarca THEN "nan" ELSE m

\* Line 100.
Marcas(rows) == SortedStrings({AsStr(rows[i].Marca) : i \in 1..Len(rows)})

\* groupby('Marca')['Vendidos'].sum(): sort=True and dropna=True, one entry per
\* non-null brand, in the sorted order of the brands.
GroupBySum(rows) ==
    LET keys == SortedStrings(Values(Column(rows, "Marca")) \ {NaNMarca})
    IN  [k \in 1..Len(keys) |->
            [Marca |-> keys[k],
             Vendidos |-> SumSeq(Column(SelectSeq(rows, LAMBDA r : r.Marca = keys[k]),
                                        "Vendidos"))]]

\* A sort that was left ascending.
SortAscByVendidos(rows, t) == Take(rows, ArgSortAsc(Column(rows, "Vendidos"), t))

\* .sort_values(ascending=False) on Vendidos.
SortDescByVendidos(rows, t) == Take(rows, ArgSortDesc(Column(rows, "Vendidos"), t))

\* Line 104.
TopMarcas(rows, t) == PdHead(SortDescByVendidos(GroupBySum(rows), t), TopN)

\* df_global['Marca'] == marca_sel
MarcaEq(m, sel) == m = sel

\* Line 108.
TopProductos(rows, sel, t) ==
    PdHead(SortDescByVendidos(SelectSeq(rows, LAMBDA r : MarcaEq(r.Marca, sel)), t), TopN)

RECURSIVE FirstSeen(_, _)
\* The distinct values of a column in the order of their first appearance.
FirstSeen(col, seen) ==
    IF Len(col) = 0 THEN <<>>
    ELSE IF col[1] \in seen THEN FirstSeen(Tail(col), seen)
    ELSE <<col[1]>> \o FirstSeen(Tail(col), seen \cup {col[1]})

\* ['Marca'].value_counts().head(n).index.tolist(): the non-null brands by
\* descending count, sorted from their order of first appearance.
ValueCountsHead(rows, n, t) ==
    LET keys == FirstSeen(Column(rows, "Marca"), {NaNMarca})
        cnt  == [k \in 1..Len(keys) |->
                    Len(SelectSeq(rows, LAMBDA r : r.Marca = keys[k]))]
    IN  PdHead(Take(keys, ArgSortDesc(cnt, t)), n)

\* df_global[df_global['Marca'].isin(sel)]
IsIn(rows, sel) == SelectSeq(rows, LAMBDA r : r.Marca \in sel)

\* Lines 123-125 and 130-139: nothing is computed for an empty selection.
Chart(rows, sel) ==
    IF sel = {} THEN [shown |-> FALSE, rows |-> <<>>]
    ELSE [shown |-> TRUE, rows |-> IsIn(rows, sel)]

\* Line 143.
BelowCeiling(rows) ==
    SelectSeq(rows, LAMBDA r : r.Precio.num < PriceCeiling * r.Precio.den)

(***************************************************************************)
(* The session: every interaction re-executes the script.                  *)
(***************************************************************************)
Generos == {"Ambos", "Hombre", "Mujer"}

NoUi == [genero_filtro |-> "Ambos", marca_sel |-> "Todas", sel_box |-> {}, sel_strip |-> {}]

NoOut ==
    [error |-> "", steps |-> {}, df_global |-> <<>>, metrics |-> Metricas(<<>>),
     pie |-> FALSE, marcas |-> <<>>, data |-> <<>>,
     box |-> Chart(<<>>, {}), strip |-> Chart(<<>>, {}),
     df_clean |-> <<>>, violin |-> FALSE]

AllSteps == {"normalizar", "filtro", "metricas", "torta", "ranking", "cajas", "puntos",
             "violin", "datos"}

\* The widget values <<marca_sel, sel_box, sel_strip>> of a run: the three
\* defaults, or one of them changed by the user: a brand chosen in the selectbox,
\* or one multiselect emptied or given every option.
WidgetChoices(marcas, defBox, defStrip) ==
    {<<"Todas", Values(defBox), Values(defStrip)>>}
    \cup {<<ms, Values(defBox), Values(defStrip)>> : ms \in Values(marcas)}
    \cup {<<"Todas", sb, Values(defStrip)>> : sb \in {{}, Values(marcas)}}
    \cup {<<"Todas", Values(defBox), ss>> : ss \in {{}, Values(marcas)}}

\* What a run that reaches line 46 computes from the frame cargar_datos returned.
Render(base, g, ms, sb, ss, t) ==
    LET dfn == Normalizar(base)
        dg  == FiltrarGenero(dfn, g)
        dc  == BelowCeiling(dg)
    IN  [error |-> "", steps |-> AllSteps, df_global |-> dg, metrics |-> Metricas(dg),
         pie |-> (g = "Ambos"), marcas |-> Marcas(dg),
         data |-> IF ms = "Todas" THEN TopMarcas(dg, t) ELSE TopProductos(dg, ms, t),
         box |-> Chart(dg, sb), strip |-> Chart(dg, ss),
         df_clean |-> dc, violin |-> (Len(dc) > 0)]

\* No call of limpiar_numero on its own yet (SpecNum).
NoCall == [called |-> FALSE, raised |-> FALSE, value |-> IntVal(0)]

Init ==
    /\ \E files \in Inputs : csv_m = files[1] /\ csv_w = files[2]
    /\ exists_m \in BOOLEAN
    /\ exists_w \in BOOLEAN
    /\ tie \in TieOrders
    /\ cache = NoEntry
    /\ reads = [m |-> 0, w |-> 0]
    /\ status = "fresh"
    /\ df = None
    /\ ui = NoUi
    /\ out = NoOut
    /\ texto = NaN
    /\ es_float = TRUE
    /\ resultado = NoCall

\* Lines 40-44: cargar_datos gave None; st.error, then st.stop ends the run.
RerunStop ==
    LET call == CachedCall(cache, reads, exists_m, exists_w, csv_m, csv_w)
    IN  /\ call.value.none
        /\ cache' = call.cache
        /\ reads' = call.reads
        /\ status' = "stopped"
        /\ df' = None
        /\ ui' = NoUi
        /\ out' = [NoOut EXCEPT !.error = "Faltan los archivos CSV."]
        /\ UNCHANGED <<csv_m, csv_w, exists_m, exists_w, tie, numVars>>

\* Lines 40-159 with a frame: the whole dashboard, for the widget values given.
RerunDashboard ==
    LET call == CachedCall(cache, reads, exists_m, exists_w, csv_m, csv_w)
    IN  /\ ~call.value.none
        /\ \E g \in Generos :
             LET dg     == FiltrarGenero(Normalizar(call.value.rows), g)
                 marcas == Marcas(dg)
             IN  \E w \in WidgetChoices(marcas, ValueCountsHead(dg, BoxDefaultN, tie),
                                         ValueCountsHead(dg, StripDefaultN, tie)) :
                     /\ ui' = [genero_filtro |-> g, marca_sel |-> w[1],
                               sel_box |-> w[2], sel_strip |-> w[3]]
                     /\ out' = Render(call.value.rows, g, w[1], w[2], w[3], tie)
        /\ cache' = call.cache
        /\ reads' = call.reads
        /\ status' = "rendered"
        /\ df' = Frame(Normalizar(call.value.rows))
        /\ UNCHANGED <<csv_m, csv_w, exists_m, exists_w, tie, numVars>>

\* The environment: a missing file is put in place between two runs.
FileRestored ==
    /\ \/ ~exists_m /\ exists_m' = TRUE /\ UNCHANGED exists_w
       \/ ~exists_w /\ exists_w' = TRUE /\ UNCHANGED exists_m
    /\ UNCHANGED <<csv_m, csv_w, tie, cache, reads, status, df, ui, out, numVars>>

Next == RerunStop \/ RerunDashboard \/ FileRestored

Spec == Init /\ [][Next]_vars

(***************************************************************************)
(* SpecNum: limpiar_numero applied to one input.                           *)
(***************************************************************************)
InitNum ==
    /\ texto \in Texts \cup {NaN}
    /\ es_float \in BOOLEAN
    /\ resultado = NoCall
    /\ csv_m = <<>>
    /\ csv_w = <<>>
    /\ exists_m = FALSE
    /\ exists_w = FALSE
    /\ tie = "kept"
    /\ cache = NoEntry
    /\ reads = [m |-> 0, w |-> 0]
    /\ status = "fresh"
    /\ df = None
    /\ ui = NoUi
    /\ out = NoOut

Limpiar ==
    /\ ~resultado.called
    /\ LET r == limpiar_numero(texto, es_float)
       IN  resultado' = [called |-> TRUE, raised |-> r.raised, value |-> r.value]
    /\ UNCHANGED <<texto, es_float, appVars>>

NextNum == Limpiar

SpecNum == InitNum /\ [][NextNum]_vars

(***************************************************************************)
(* Properties of limpiar_numero (SpecNum).                                 *)
(***************************************************************************)
\* What a kept string denotes when read as a decimal numeral, digit by digit;
\* unparseable when it holds no digit, more than one '.', or a character that is
\* not a decimal digit.
RefParse(k, flt) ==
    LET dots == {i \in 1..Len(k) : k[i] = "."}
        d    == SelectSeq(k, LAMBDA x : x # ".")
        n    == Len(d)
        ok   == /\ n > 0
                /\ Cardinality(dots) <= 1
                /\ \A i \in 1..n : IsDecimal(d[i])
        v    == SumSeq([j \in 1..n |-> DigitValue(d[j]) * Pow10(n - j)])
        frac == IF dots = {} THEN 0
                ELSE Cardinality({i \in 1..Len(k) : \A j \in dots : i > j})
    IN  IF ~ok THEN Default(flt)
        ELSE IF flt THEN FloatVal(v, Pow10(frac)) ELSE IntVal(v)

KeepAscii(t, flt) == SelectSeq(t, LAMBDA x : x \in AsciiDigits \/ (x = "." /\ flt))
KeepDigits(t, flt) == SelectSeq(t, LAMBDA x : IsDigit(x) \/ (x = "." /\ flt))

\* The text without the characters that are neither a digit nor a '.'.
Stripped(t) == SelectSeq(t, LAMBDA x : IsDigit(x) \/ x = ".")

\* C1: for every raw input (missing, empty, any text) and both modes,
\* limpiar_numero does not raise and returns a number of the declared mode that is
\* >= 0: a float >= 0.0 when es_float, an integer >= 0 otherwise.
C1_TotalNonNegative ==
    resultado.called =>
        /\ ~resultado.raised
        /\ resultado.value.tipo = (IF es_float THEN "float" ELSE "int")
        /\ resultado.value.num >= 0
        /\ resultado.value.den >= 1
        /\ (~es_float => resultado.value.den = 1)

\* C1 witness: a text with a minus sign and two '.' in Float mode, whose conversion
\* fails and is absorbed.
C1_Witness ==
    /\ resultado.called
    /\ es_float
    /\ texto = <<"-", ".", ".">>
    /\ resultado.value = Default(TRUE)

\* C2 as stated: the result is the value of the string of the ASCII digits (and,
\* in Float mode, the '.') of the text, or the default when that string cannot be
\* parsed; no other character influences it.
C2_AsciiOnly ==
    (resultado.called /\ ~IsNa(texto)) =>
        resultado.value = RefParse(KeepAscii(texto, es_float), es_float)

\* C2 amended: the characters kept are those str.isdigit() is true of (the ASCII
\* digits and the other Unicode digits) and, in Float mode, every '.'; the result
\* is the value of the kept string, or the default when it cannot be parsed
\* (empty, a lone '.', more than one '.', or a digit int()/float() reject); a
\* character that is neither such a digit nor a '.' does not influence the result,
\* and on a text without non-ASCII digits the result is that of C2 as stated.
C2_DigitsAndDots ==
    (resultado.called /\ ~IsNa(texto)) =>
        /\ resultado.value = RefParse(KeepDigits(texto, es_float), es_float)
        /\ resultado.value = limpiar_numero(Stripped(texto), es_float).value
        /\ ((\A i \in 1..Len(texto) : IsDigit(texto[i]) => texto[i] \in AsciiDigits)
              => resultado.value = RefParse(KeepAscii(texto, es_float), es_float))
        /\ (texto = <<"$", "1", "2", ".", "9", "9">> /\ es_float
              => resultado.value = FloatVal(1299, 100))
        /\ (texto = <<"1", "2", " ", "s", "o", "l", "d">> /\ ~es_float
              => resultado.value = IntVal(12))
        /\ (texto = <<"N", "/", "A">> /\ ~es_float => resultado.value = IntVal(0))
        /\ (texto = <<"1", ".", "2", ".", "3">> /\ es_float
              => resultado.value = FloatVal(0, 1))

\* C2 witness: an ASCII digit followed by SUPERSCRIPT TWO in Integer mode: the kept
\* string is both characters, int() rejects it, the result is 0 and not 1.
C2_Witness ==
    /\ resultado.called
    /\ ~es_float
    /\ texto = <<"$", "1", "U+00B2">>
    /\ resultado.value = IntVal(0)

(***************************************************************************)
(* Properties of the session (Spec).                                       *)
(***************************************************************************)
Rendered == status = "rendered"

Min2(a, b) == IF a <= b THEN a ELSE b

\* How many times a value occurs in a sequence.
Count(s, x) == Cardinality({i \in 1..Len(s) : s[i] = x})

\* A file was missing when the body of cargar_datos ran.
MissingAtLoad == cache.filled /\ (reads.m = 0 \/ reads.w = 0)

\* C3: when a source file is missing at load (the men's, the women's or both),
\* cargar_datos yields no table, and the run and every later run stop after the
\* error message: nothing is normalized, filtered, summarized or charted.
C3_MissingSourceHalts ==
    MissingAtLoad =>
        /\ cache.value = None
        /\ status = "stopped"
        /\ df = None
        /\ out = [NoOut EXCEPT !.error = "Faltan los archivos CSV."]
        /\ out.steps = {}

\* C3 witness: only the women's file was missing at load; the men's file was read,
\* no table was built from it, and the session stays stopped after the women's
\* file has been put in place.
C3_Witness ==
    /\ status = "stopped"
    /\ reads = [m |-> 1, w |-> 0]
    /\ Len(csv_m) > 0
    /\ exists_m /\ exists_w

\* C4: the table cargar_datos returns has the M rows of the men's file, in order
\* and tagged 'Hombre', then the N rows of the women's file, in order and tagged
\* 'Mujer': M+N rows, the tag decided by the file alone.
C4_ConcatTagged ==
    (cache.filled /\ ~cache.value.none) =>
        LET T == cache.value.rows
            M == Len(csv_m)
            N == Len(csv_w)
            Same(row, src, g) ==
                /\ row.Genero = g
                /\ row.Titulo = src.title
                /\ row.Marca = src.brand
                /\ row.Precio_Texto = src.price
                /\ row.Vendidos_Texto = src.sold
        IN  /\ Len(T) = M + N
            /\ \A i \in 1..M : Same(T[i], read_csv(csv_m)[i], "Hombre")
            /\ \A j \in 1..N : Same(T[M + j], read_csv(csv_w)[j], "Mujer")

\* C4 witness: a table of both sources in which a men's row and a women's row have
\* the same content and different tags.
C4_Witness ==
    /\ cache.filled /\ ~cache.value.none
    /\ Len(csv_m) > 0 /\ Len(csv_w) > 0
    /\ csv_m[1] = csv_w[1]
    /\ cache.value.rows[1].Genero = "Hombre"
    /\ cache.value.rows[Len(csv_m) + 1].Genero = "Mujer"

\* The sum of Vendidos over the rows of a brand, and the brand's first row.
SumOf(rows, b) == SumSeq(Column(SelectSeq(rows, LAMBDA r : r.Marca = b), "Vendidos"))
FirstRow(rows, b) == MinOf({i \in 1..Len(rows) : rows[i].Marca = b})
BrandsOf(rows) == Values(Column(rows, "Marca")) \ {NaNMarca}

\* The parts of C5 that do not depend on the order of equal sums: one entry per
\* brand kept, each with the brand's sum; min(10, brands) entries; sums descending.
TopMarcasShape(rows, data) ==
    /\ Len(data) = Min2(TopN, Cardinality(BrandsOf(rows)))
    /\ \A k \in 1..Len(data) :
          /\ data[k].Marca \in BrandsOf(rows)
          /\ data[k].Vendidos = SumOf(rows, data[k].Marca)
    /\ \A k, l \in 1..Len(data) :
          k < l => data[k].Marca # data[l].Marca /\ data[k].Vendidos >= data[l].Vendidos

\* C5 as stated: the 'Todas' ranking has one entry per brand with its summed
\* Vendidos, at most 10 entries, descending sums, brands of equal sums in the order
\* of their first rows in the table, and the brands cut at a tie are the ones met
\* last.
C5_TiesByFirstSeen ==
    (Rendered /\ ui.marca_sel = "Todas") =>
        LET rows == out.df_global
            data == out.data
            kept == {data[k].Marca : k \in 1..Len(data)}
        IN  /\ TopMarcasShape(rows, data)
            /\ \A k, l \in 1..Len(data) :
                  (k < l /\ data[k].Vendidos = data[l].Vendidos)
                      => FirstRow(rows, data[k].Marca) < FirstRow(rows, data[l].Marca)
            /\ \A b \in BrandsOf(rows) \ kept : \A k \in 1..Len(data) :
                  \/ data[k].Vendidos > SumOf(rows, b)
                  \/ /\ data[k].Vendidos = SumOf(rows, b)
                     /\ FirstRow(rows, data[k].Marca) < FirstRow(rows, b)

\* C5 amended: the 'Todas' ranking has one entry per non-null brand kept, with its
\* summed Vendidos, min(10, number of brands) entries, sums in descending order,
\* and no brand left out has a larger sum than a brand kept; the order of brands of
\* equal sums, and which of them a cut at a tie keeps, is not determined.
C5_TopMarcas ==
    (Rendered /\ ui.marca_sel = "Todas") =>
        LET rows == out.df_global
            data == out.data
            kept == {data[k].Marca : k \in 1..Len(data)}
        IN  /\ TopMarcasShape(rows, data)
            /\ \A b \in BrandsOf(rows) \ kept : \A k \in 1..Len(data) :
                  data[k].Vendidos >= SumOf(rows, b)

\* C5 witness: eleven brands of equal sums, ten of them kept.
C5_Witness ==
    /\ Rendered /\ ui.marca_sel = "Todas"
    /\ Cardinality(BrandsOf(out.df_global)) > TopN
    /\ Len(out.data) = TopN
    /\ out.data[1].Vendidos = out.data[TopN].Vendidos

\* The rows of the selected brand, in table order.
BrandRows(rows, b) == SelectSeq(rows, LAMBDA r : r.Marca = b)

\* The parts of C6 that do not depend on the order of equal Vendidos: only rows of
\* the brand, each no more often than in the table, min(10, rows of the brand) of
\* them (so all of them when there are at most 10), Vendidos descending, and no row
\* left out sold more than a row kept.
TopProductosShape(rows, b, data) ==
    LET mine == BrandRows(rows, b)
    IN  /\ Len(data) = Min2(TopN, Len(mine))
        /\ \A k \in 1..Len(data) :
              /\ data[k].Marca = b
              /\ Count(data, data[k]) <= Count(mine, data[k])
        /\ \A k, l \in 1..Len(data) : k < l => data[k].Vendidos >= data[l].Vendidos
        /\ \A i \in 1..Len(mine) :
              Count(data, mine[i]) < Count(mine, mine[i])
                  => \A k \in 1..Len(data) : data[k].Vendidos >= mine[i].Vendidos

\* C6 as stated: the ranking of a selected brand holds only rows of that brand, by
\* descending Vendidos with rows of equal Vendidos in their table order, cut to the
\* first 10; every row of the brand when it has at most 10.
C6_StableTopProductos ==
    (Rendered /\ ui.marca_sel # "Todas") =>
        LET mine == BrandRows(out.df_global, ui.marca_sel)
        IN  /\ TopProductosShape(out.df_global, ui.marca_sel, out.data)
            /\ out.data = PdHead(Take(mine, ArgSortDesc(Column(mine, "Vendidos"), "kept")),
                                 TopN)

\* C6 amended: the ranking of a selected brand holds only rows whose Marca equals
\* the selection exactly, min(10, rows of the brand) of them, by descending
\* Vendidos, and no row left out sold more than a row kept; the order of rows of
\* equal Vendidos, and which of them a cut at a tie keeps, is not determined.
C6_TopProductos ==
    (Rendered /\ ui.marca_sel # "Todas") =>
        TopProductosShape(out.df_global, ui.marca_sel, out.data)

\* C6 witness: a brand of eleven rows, ten of equal Vendidos; the row that sold
\* most comes first and one of the others is cut.
C6_Witness ==
    /\ Rendered /\ ui.marca_sel = "A"
    /\ Len(BrandRows(out.df_global, "A")) > TopN
    /\ Len(out.data) = TopN
    /\ out.data[1].Vendidos > out.data[2].Vendidos
    /\ out.data[2].Vendidos = out.data[TopN].Vendidos

\* The sold count a row's text stands for: its digits read as a numeral, 0 when
\* the cell is missing or holds no digit.
RefSold(t) == IF IsNa(t) THEN 0 ELSE RefParse(KeepDigits(t, FALSE), FALSE).num

\* C7: for every filtered table, the empty one included, the metrics are computed:
\* count is the number of rows, totalSold the sum of the sold counts (0 for a row
\* whose text is unparseable, which still counts as a row), distinctBrandCount the
\* number of distinct non-null brands, case-sensitive; all three 0 on no row.
C7_Metricas ==
    Rendered =>
        LET rows == out.df_global
            m    == out.metrics
        IN  /\ "metricas" \in out.steps
            /\ rows = SelectSeq(df.rows, LAMBDA r : ui.genero_filtro \in {"Ambos", r.Genero})
            /\ m.count = Len(rows)
            /\ m.total = SumSeq([i \in 1..Len(rows) |-> RefSold(rows[i].Vendidos_Texto)])
            /\ m.marcas_unicas = Cardinality({rows[i].Marca : i \in 1..Len(rows)} \ {NaNMarca})
            /\ (Len(rows) = 0 =>
                  m.count = 0 /\ m.total = 0 /\ m.marcas_unicas = 0 /\ m.mean.nan)

\* C7 witness: a row of brand "a" and a row without brand whose sold text holds no
\* digit: two rows, one brand, the unparseable row adding nothing to the total.
C7_Witness ==
    /\ Rendered
    /\ out.metrics.count = 2
    /\ out.metrics.marcas_unicas = 1
    /\ out.metrics.total = 5
    /\ \E i \in 1..Len(out.df_global) :
          /\ out.df_global[i].Marca = NaNMarca
          /\ out.df_global[i].Vendidos_Texto = <<"-">>

\* C7 on no row: a gender filter that leaves nothing of a table that has rows.
C7_EmptyReached ==
    /\ Rendered
    /\ Len(df.rows) > 0
    /\ Len(out.df_global) = 0

\* C8 as stated: the filter by a brand subset gives exactly the rows whose Marca is
\* in the subset: nothing for the empty subset, and the whole of df_global for the
\* subset of every brand offered (the list marcas).
C8_BrandSubset ==
    Rendered =>
        \A c \in {<<ui.sel_box, out.box>>, <<ui.sel_strip, out.strip>>} :
            /\ c[2].rows = SelectSeq(out.df_global, LAMBDA r : r.Marca \in c[1])
            /\ (c[1] = {} => c[2].rows = <<>>)
            /\ (c[1] = Values(out.marcas) => c[2].rows = out.df_global)

\* C9: once the table is loaded the sources are not read again, no run changes the
\* cached table (it never gets the columns Precio and Vendidos), and a run with the
\* widget values of the run before it computes the same views.
C9_CacheFrame ==
    [][ /\ (cache.filled => cache' = cache /\ reads' = reads)
        /\ reads'.m <= 1 /\ reads'.w <= 1
        /\ \A i \in 1..Len(cache'.value.rows) :
              DOMAIN cache'.value.rows[i] =
                  {"Marca", "Titulo", "Precio_Texto", "Vendidos_Texto", "Genero"}
        /\ (Rendered /\ status' = "rendered" /\ ui' = ui) => (out' = out /\ df' = df)
      ]_vars

\* C9 witness: a rendered run for a gender and a brand, after one read of each
\* file, the script's own df with the two columns the cached table lacks.
C9_Witness ==
    /\ Rendered
    /\ reads = [m |-> 1, w |-> 1]
    /\ ui.genero_filtro = "Mujer" /\ ui.marca_sel = "A"
    /\ Len(out.data) > 0
    /\ Len(cache.value.rows) = Len(df.rows)
    /\ \A i \in 1..Len(df.rows) : DOMAIN df.rows[i] # DOMAIN cache.value.rows[i]

\* C10 as stated: every brand the selector offers selects at least one row (its
\* ranking is not empty), and the rows the offered brands select cover df_global.
C10_OfferedBrandsSelect ==
    Rendered =>
        /\ (ui.marca_sel # "Todas" => Len(out.data) > 0)
        /\ \A i \in 1..Len(out.df_global) :
              \E b \in Values(out.marcas) : MarcaEq(out.df_global[i].Marca, b)

====
